---- MODULE Spec2Model ----
(***************************************************************************)
(* A model of the RK4 integration engine of diff_eq:                       *)
(*   src/lib/ode-solver.ts   vector arithmetic, rk4Step,                   *)
(*                           validateSolverConfig, solveODE, solveODESafe  *)
(*   src/types/simulation.ts the shapes of systems, configs and results    *)
(*   src/lib/systems/*.ts    the built-in systems                          *)
(*                                                                         *)
(* JavaScript numbers are modelled as a small binary floating-point        *)
(* format: integers with Precision significant bits, NaN and the two       *)
(* infinities.  Every arithmetic result is rounded to the nearest          *)
(* representable value, ties to the even significand, and a result whose   *)
(* magnitude exceeds FMax overflows to an infinity, as a double does       *)
(* beyond Number.MAX_VALUE.                                                *)
(***************************************************************************)
EXTENDS Integers, Sequences, FiniteSets, TLC

\* ------------------------------------------------------------------------
\* Bounds of the model
\* ------------------------------------------------------------------------

\* Largest finite magnitude; beyond it arithmetic overflows to +-Infinity.
FMax == 1000

\* Significant bits of a number (53 in a double).
Precision == 4

\* tMax is drawn from 6 * (-1 .. MaxHorizon) besides the non-finite values.
MaxHorizon == 3

\* Operands of the vector operations have lengths 0 .. MaxLen.
MaxLen == 2

\* ------------------------------------------------------------------------
\* Numbers (IEEE-754 binary floating point, scaled down)
\* ------------------------------------------------------------------------

Fin(n) == [k |-> "fin", v |-> n]

NaN == [k |-> "nan", v |-> 0]

PosInfinity == [k |-> "inf", v |-> 1]

NegInfinity == [k |-> "inf", v |-> -1]

\* The value undefined, and an empty slot of a sparse array (an index below
\* the length that holds no element).
Undefined == [k |-> "undefined", v |-> 0]

Empty == [k |-> "empty", v |-> 0]

\* The spacing of the representable numbers around n >= 0: the least
\* power of two u, from u on, with n < u * 2^Precision.
RECURSIVE Ulp(_, _)
Ulp(n, u) == IF n < u * 2^Precision THEN u ELSE Ulp(n, 2 * u)

\* n >= 0 rounded to a multiple of the spacing u: to the nearest one, and
\* of two equally near ones to the even multiple.
RoundTo(n, u) ==
  IF 2 * (n % u) < u \/ (2 * (n % u) = u /\ (n \div u) % 2 = 0)
    THEN n - (n % u)
  ELSE n - (n % u) + u

\* n rounded to the nearest representable number, ties to even.
Round(n) ==
  (IF n < 0 THEN -1 ELSE 1)
    * RoundTo(IF n < 0 THEN -n ELSE n, Ulp(IF n < 0 THEN -n ELSE n, 1))

\* A rounded result; beyond FMax it has overflowed.
Overflow(r) ==
  IF r > FMax THEN PosInfinity
  ELSE IF r < -FMax THEN NegInfinity
  ELSE Fin(r)

\* The number an exact result n becomes.
Norm(n) == Overflow(Round(n))

\* The global isFinite(x).
isFinite(x) == x.k = "fin"

Sgn(x) == IF x.v > 0 THEN 1 ELSE IF x.v < 0 THEN -1 ELSE 0

\* Position of a non-NaN number on the extended line.
Ord(x) == IF x.k = "inf" THEN x.v * (FMax + 1) ELSE x.v

\* a < b, a <= b, a > b, a >= b: every comparison with NaN is false.
Lt(a, b) == a.k # "nan" /\ b.k # "nan" /\ Ord(a) < Ord(b)

Le(a, b) == a.k # "nan" /\ b.k # "nan" /\ Ord(a) <= Ord(b)

Gt(a, b) == Lt(b, a)

Ge(a, b) == Le(b, a)

Neg(a) == IF a.k = "nan" THEN NaN ELSE [k |-> a.k, v |-> -a.v]

\* a + b
Add(a, b) ==
  IF a.k = "nan" \/ b.k = "nan" THEN NaN
  ELSE IF a.k = "inf" /\ b.k = "inf" THEN (IF a.v = b.v THEN a ELSE NaN)
  ELSE IF a.k = "inf" THEN a
  ELSE IF b.k = "inf" THEN b
  ELSE Norm(a.v + b.v)

\* a - b
Sub(a, b) == Add(a, Neg(b))

\* a * b
Mul(a, b) ==
  IF a.k = "nan" \/ b.k = "nan" THEN NaN
  ELSE IF a.k = "inf" \/ b.k = "inf"
    THEN (IF Sgn(a) * Sgn(b) = 0 THEN NaN
          ELSE [k |-> "inf", v |-> Sgn(a) * Sgn(b)])
  ELSE Norm(a.v * b.v)

\* a / n for a literal divisor n > 0 (dt / 2, dt / 6), rounded to the
\* nearest integer.
Div(a, n) ==
  IF a.k # "fin" THEN a
  ELSE Norm((2 * a.v + n) \div (2 * n))

\* Math.sqrt(x)
MathSqrt(x) ==
  IF x.k = "nan" THEN NaN
  ELSE IF x.k = "inf" THEN (IF x.v > 0 THEN PosInfinity ELSE NaN)
  ELSE IF x.v < 0 THEN NaN
  ELSE Norm(CHOOSE r \in 0..x.v :
             /\ (r = 0 \/ 4 * r * r - 4 * r + 1 <= 4 * x.v)
             /\ 4 * x.v < 4 * r * r + 4 * r + 1)

\* Math.ceil(a / b) for finite a and finite b > 0 (the quotient itself
\* is not rounded).
MathCeilDiv(a, b) == -((-a.v) \div b.v)

\* ------------------------------------------------------------------------
\* Errors and completions
\* ------------------------------------------------------------------------

\* An error message: its fixed text and the values interpolated into it
\* (names, numbers, and a time formatted by toFixed(2)).
Msg(text, names, nums, at) ==
  [text |-> text, names |-> names, nums |-> nums, at |-> at]

\* The null returned by a successful validation.
Null == Msg("null", <<>>, <<>>, <<>>)

\* A value thrown: an Error object with its message, or any other value
\* with its String() form.
ErrorObject(m) == [isError |-> TRUE, message |-> m]

OtherThrown(m) == [isError |-> FALSE, message |-> m]

NoThrow == OtherThrown(Null)

\* A normal completion with a value, and a throw.
Ok(val) == [ok |-> TRUE, val |-> val, thrown |-> NoThrow]

Throw(e) == [ok |-> FALSE, val |-> <<>>, thrown |-> e]

\* t.toFixed(2) of an integral time: the integer part and two decimals.
toFixed2(x) ==
  IF x.k = "fin" THEN <<x.v, 0>>
  ELSE <<>>

\* ------------------------------------------------------------------------
\* Vector arithmetic (ode-solver.ts lines 17-67)
\* ------------------------------------------------------------------------

LengthMismatch(la, lb) ==
  ErrorObject(Msg("Vector length mismatch", <<>>, <<Fin(la), Fin(lb)>>, <<>>))

\* add with the length check of a loop that only guards its own index.
addChecksOverrun(a, b) ==
  IF Len(a) > Len(b) THEN Throw(LengthMismatch(Len(a), Len(b)))
  ELSE Ok([i \in 1..Len(a) |-> Add(a[i], b[i])])

add(a, b) ==
  IF Len(a) # Len(b) THEN Throw(LengthMismatch(Len(a), Len(b)))
  ELSE Ok([i \in 1..Len(a) |-> Add(a[i], b[i])])

scale(v, scalar) == [i \in 1..Len(v) |-> Mul(v[i], scalar)]

subtract(a, b) ==
  IF Len(a) # Len(b) THEN Throw(LengthMismatch(Len(a), Len(b)))
  ELSE Ok([i \in 1..Len(a) |-> Sub(a[i], b[i])])

\* a.reduce((sum, val, i) => sum + val * b[i], 0), left to right.
RECURSIVE DotReduce(_, _, _)
DotReduce(a, b, n) ==
  IF n = 0 THEN Fin(0)
  ELSE Add(DotReduce(a, b, n - 1), Mul(a[n], b[n]))

dot(a, b) ==
  IF Len(a) # Len(b) THEN Throw(LengthMismatch(Len(a), Len(b)))
  ELSE Ok(DotReduce(a, b, Len(a)))

magnitude(v) == MathSqrt(DotReduce(v, v, Len(v)))

\* ------------------------------------------------------------------------
\* Systems (types/simulation.ts ODESystem, Parameter; lib/systems/*.ts)
\* ------------------------------------------------------------------------

\* A Parameter: its name and bounds (label, step and default are used by
\* the controls only).
Parameter(name, min, max) == [name |-> name, min |-> Fin(min), max |-> Fin(max)]

\* The derivative function of a system: which equations it computes, and,
\* for the misbehaving ones, the state value from which it misbehaves.
Equations(kind, limit) == [kind |-> kind, limit |-> limit]

ODESystem(id, stateVariables, parameters, equations) ==
  [id |-> id, stateVariables |-> stateVariables,
   parameters |-> parameters, equations |-> equations]

\* lib/systems/lotka-volterra.ts
lotkaVolterraSystem ==
  ODESystem("lotka-volterra", <<"Prey", "Predator">>,
            <<Parameter("alpha", 0, 3), Parameter("beta", 0, 2),
              Parameter("delta", 0, 2), Parameter("gamma", 0, 5)>>,
            Equations("lotka-volterra", 0))

\* A one-variable system dx/dt = k*x + c with two declared parameters.
linearSystem ==
  ODESystem("linear", <<"x">>,
            <<Parameter("k", -1, 2), Parameter("c", 0, 1)>>,
            Equations("linear", 0))

\* One-variable systems dx/dt = x whose derivative function, from state
\* value limit on, returns a vector of the wrong length, throws an Error,
\* or throws a value that is no Error.
faultySystem(kind, limit) ==
  ODESystem(kind, <<"x">>, <<>>, Equations(kind, limit))

\* system.equations(state, params), as a completion.
Apply(f, state, params) ==
  CASE f.kind = "lotka-volterra" ->
         LET prey == state[1]
             predator == state[2]
             dPrey == Sub(Mul(params["alpha"], prey),
                          Mul(Mul(params["beta"], prey), predator))
             dPredator == Sub(Mul(Mul(params["delta"], prey), predator),
                              Mul(params["gamma"], predator))
         IN Ok(<<dPrey, dPredator>>)
    [] f.kind = "linear" ->
         Ok(<<Add(Mul(params["k"], state[1]), params["c"])>>)
    [] f.kind = "wrongLength" ->
         IF Ge(state[1], Fin(f.limit)) THEN Ok(<<state[1], state[1]>>)
         ELSE Ok(<<state[1]>>)
    [] f.kind = "throwsError" ->
         IF Ge(state[1], Fin(f.limit))
         THEN Throw(ErrorObject(Msg("derivative failed", <<>>, <<>>, <<>>)))
         ELSE Ok(<<state[1]>>)
    [] f.kind = "throwsValue" ->
         IF Ge(state[1], Fin(f.limit))
         THEN Throw(OtherThrown(Msg("derivative failed", <<>>, <<>>, <<>>)))
         ELSE Ok(<<state[1]>>)

\* ------------------------------------------------------------------------
\* RK4 stepper (ode-solver.ts lines 81-106)
\* ------------------------------------------------------------------------

\* An rk4Step that rejects a result with an element that is not finite.
SteppedFiniteOnly(completion, args) ==
  IF completion.ok /\ \E i \in 1..Len(completion.val) :
                        completion.val[i].k # "fin"
    THEN [ok |-> FALSE, val |-> <<>>,
          thrown |-> ErrorObject(Msg("Numerical instability detected",
                                     <<>>, <<>>, <<>>)),
          calls |-> Len(args), args |-> args]
  ELSE [ok |-> completion.ok, val |-> completion.val,
        thrown |-> completion.thrown, calls |-> Len(args), args |-> args]

\* The completion of rk4Step together with the states it invoked f on, in
\* order, and their number.
Stepped(completion, args) ==
  [ok |-> completion.ok, val |-> completion.val,
   thrown |-> completion.thrown, calls |-> Len(args), args |-> args]

rk4Step(f, state, params, dt) ==
  LET k1 == Apply(f, state, params) IN
  IF ~k1.ok THEN Stepped(k1, <<state>>) ELSE
  LET a2 == add(state, scale(k1.val, Div(dt, 2))) IN
  IF ~a2.ok THEN Stepped(a2, <<state>>) ELSE
  LET k2 == Apply(f, a2.val, params) IN
  IF ~k2.ok THEN Stepped(k2, <<state, a2.val>>) ELSE
  LET a3 == add(state, scale(k2.val, Div(dt, 2))) IN
  IF ~a3.ok THEN Stepped(a3, <<state, a2.val>>) ELSE
  LET k3 == Apply(f, a3.val, params) IN
  IF ~k3.ok THEN Stepped(k3, <<state, a2.val, a3.val>>) ELSE
  LET a4 == add(state, scale(k3.val, dt)) IN
  IF ~a4.ok THEN Stepped(a4, <<state, a2.val, a3.val>>) ELSE
  LET k4 == Apply(f, a4.val, params) IN
  IF ~k4.ok THEN Stepped(k4, <<state, a2.val, a3.val, a4.val>>) ELSE
  LET s12 == add(k1.val, scale(k2.val, Fin(2))) IN
  IF ~s12.ok THEN Stepped(s12, <<state, a2.val, a3.val, a4.val>>) ELSE
  LET s34 == add(scale(k3.val, Fin(2)), k4.val) IN
  IF ~s34.ok THEN Stepped(s34, <<state, a2.val, a3.val, a4.val>>) ELSE
  LET weightedSum == add(s12.val, s34.val) IN
  IF ~weightedSum.ok
    THEN Stepped(weightedSum, <<state, a2.val, a3.val, a4.val>>) ELSE
  Stepped(add(state, scale(weightedSum.val, Div(dt, 6))),
          <<state, a2.val, a3.val, a4.val>>)

\* ------------------------------------------------------------------------
\* Configuration validator (ode-solver.ts lines 114-173)
\* ------------------------------------------------------------------------

SolverConfig(dt, tMax, initialConditions, parameters) ==
  [dt |-> dt, tMax |-> tMax, initialConditions |-> initialConditions,
   parameters |-> parameters]

\* lines 118-126: the checks of dt, the last of them against tMax.
validateTimeStep(dt, tMax) ==
  IF ~isFinite(dt)
    THEN Msg("Time step dt must be a finite number", <<>>, <<>>, <<>>)
  ELSE IF Le(dt, Fin(0))
    THEN Msg("Time step dt must be positive", <<>>, <<>>, <<>>)
  ELSE IF Gt(dt, tMax)
    THEN Msg("Time step dt cannot be larger than maximum time tMax",
             <<>>, <<>>, <<>>)
  ELSE Null

\* lines 129-134
validateMaxTime(tMax) ==
  IF ~isFinite(tMax)
    THEN Msg("Maximum time tMax must be a finite number", <<>>, <<>>, <<>>)
  ELSE IF Le(tMax, Fin(0))
    THEN Msg("Maximum time tMax must be positive", <<>>, <<>>, <<>>)
  ELSE Null

\* state.some((val) => !isFinite(val)), lines 144 and 180-182: some does
\* not invoke its callback on an empty slot.
hasInvalidValues(state) ==
  \E i \in 1..Len(state) : state[i] # Empty /\ ~isFinite(state[i])

\* lines 140-146 (initialConditions is an array by its type)
validateInitialConditions(initialConditions, system) ==
  IF Len(initialConditions) # Len(system.stateVariables)
    THEN Msg("Initial conditions length must match number of state variables",
             <<>>,
             <<Fin(Len(initialConditions)), Fin(Len(system.stateVariables))>>,
             <<>>)
  ELSE IF hasInvalidValues(initialConditions)
    THEN Msg("All initial conditions must be finite numbers", <<>>, <<>>, <<>>)
  ELSE Null

\* A check for missing parameters that stops at the first one it finds.
firstMissingParam(parameters, system) ==
  IF \A i \in 1..Len(system.parameters) :
       system.parameters[i].name \in DOMAIN parameters
    THEN <<>>
  ELSE <<system.parameters[
           CHOOSE i \in 1..Len(system.parameters) :
             /\ system.parameters[i].name \notin DOMAIN parameters
             /\ \A j \in 1..(i - 1) :
                  system.parameters[j].name \in DOMAIN parameters].name>>

\* lines 154-156: the declared names absent from parameters, in order.
missingParams(parameters, system) ==
  SelectSeq([i \in 1..Len(system.parameters) |-> system.parameters[i].name],
            LAMBDA name : name \notin DOMAIN parameters)

\* line 167: value < param.min || value > param.max
outsideRange(value, param) == Lt(value, param.min) \/ Gt(value, param.max)

\* lines 162-170: the loop over the declared parameters, from the i-th on.
RECURSIVE validateParameterValues(_, _, _)
validateParameterValues(parameters, system, i) ==
  IF i > Len(system.parameters) THEN Null
  ELSE LET param == system.parameters[i]
           value == parameters[param.name]
       IN IF ~isFinite(value)
            THEN Msg("Parameter must be a finite number",
                     <<param.name>>, <<>>, <<>>)
          ELSE IF outsideRange(value, param)
            THEN Msg("Parameter is outside valid range",
                     <<param.name>>, <<value, param.min, param.max>>, <<>>)
          ELSE validateParameterValues(parameters, system, i + 1)

\* lines 149-170 (parameters is an object by its type)
validateParameters(parameters, system) ==
  IF Len(missingParams(parameters, system)) > 0
    THEN Msg("Missing required parameters",
             missingParams(parameters, system), <<>>, <<>>)
  ELSE validateParameterValues(parameters, system, 1)

validateSolverConfig(config, system) ==
  IF validateTimeStep(config.dt, config.tMax) # Null
    THEN validateTimeStep(config.dt, config.tMax)
  ELSE IF validateMaxTime(config.tMax) # Null
    THEN validateMaxTime(config.tMax)
  ELSE IF validateInitialConditions(config.initialConditions, system) # Null
    THEN validateInitialConditions(config.initialConditions, system)
  ELSE validateParameters(config.parameters, system)

\* ------------------------------------------------------------------------
\* The inputs of the model
\* ------------------------------------------------------------------------

\* A parameter left out of config.parameters.
Absent == [k |-> "absent", v |-> 0]

\* The object holding the entries of choice that are not Absent.
ParameterObject(choice) ==
  [n \in {m \in DOMAIN choice : choice[m] # Absent} |-> choice[n]]

DtChoices == {NaN, PosInfinity, Fin(-6), Fin(0), Fin(6), Fin(12)}

TMaxChoices ==
  {NaN, PosInfinity, NegInfinity} \cup {Fin(6 * h) : h \in -1..MaxHorizon}

\* Configurations of linearSystem that violate any combination of the
\* validation rules, or none; initialConditions is empty, dense, too long,
\* or a sparse array of the right length.
ValidationInputs ==
  {<<linearSystem,
     SolverConfig(dt, tMax, ic, ParameterObject([k |-> kv, c |-> cv]))>> :
     dt \in DtChoices, tMax \in TMaxChoices,
     ic \in {<<>>, <<Fin(1)>>, <<NaN>>, <<Empty>>, <<Fin(1), Fin(1)>>},
     kv \in {Absent, NaN, Fin(-2), Fin(-1), Fin(0), Fin(2), Fin(3)},
     cv \in {Absent, Fin(0), Fin(1), Fin(2)}}

\* Runs of linearSystem: dx/dt = 1 stays finite, dx/dt = -x overflows in a
\* later step (the step is far too long for it), dx/dt = 2x in the first.
LinearRuns ==
  {<<linearSystem,
     SolverConfig(dt, Fin(6 * h), <<Fin(1)>>, [k |-> kc[1], c |-> kc[2]])>> :
     dt \in {Fin(6), Fin(12)}, h \in 1..MaxHorizon,
     kc \in {<<Fin(0), Fin(1)>>, <<Fin(-1), Fin(0)>>, <<Fin(2), Fin(0)>>}}

\* Runs of the predator-prey system: from its equilibrium and from [1, 1],
\* and with two parameters missing.
LotkaVolterraRuns ==
  {<<lotkaVolterraSystem, SolverConfig(Fin(6), Fin(12), ic, ps)>> :
     ic \in {<<Fin(3), Fin(1)>>, <<Fin(1), Fin(1)>>},
     ps \in {[alpha |-> Fin(1), beta |-> Fin(1),
              delta |-> Fin(1), gamma |-> Fin(3)],
             [beta |-> Fin(1), delta |-> Fin(1)]}}

\* Runs of the systems whose derivative function misbehaves at the first,
\* second, third or fourth stage of the first step (the stages are invoked
\* on 1, 4, 13 and 80), in the second step, or never.
FaultyRuns ==
  {<<faultySystem(kind, limit),
     SolverConfig(Fin(6), Fin(12), <<Fin(1)>>, <<>>)>> :
     kind \in {"wrongLength", "throwsError", "throwsValue"},
     limit \in {1, 3, 13, 50, 115, 2 * FMax}}

\* Runs of dx/dt = 0 whose accumulated time is rounded: t = 50 is not
\* representable with Precision = 4 and becomes 48, t = 58 becomes 56.
DriftRuns ==
  {<<linearSystem,
     SolverConfig(Fin(10), tMax, <<Fin(1)>>, [k |-> Fin(0), c |-> Fin(0)])>> :
     tMax \in {Fin(48), Fin(60)}}

\* A run of dx/dt = 0 whose time stops advancing: with Precision = 4,
\* 16 + 1 is stored as 16, which is less than tMax.
StallRuns ==
  {<<linearSystem,
     SolverConfig(Fin(1), Fin(18), <<Fin(1)>>, [k |-> Fin(0), c |-> Fin(0)])>>}

\* More calls of linearSystem: dx/dt = 0, calls that validation rejects, and
\* calls whose initialConditions is a sparse array of the right length.
OtherRuns ==
  {<<linearSystem,
     SolverConfig(Fin(6), tMax, ic, [k |-> Fin(0), c |-> Fin(0)])>> :
     tMax \in {Fin(0), Fin(6)}, ic \in {<<Fin(1)>>, <<NaN>>, <<Empty>>}}
  \ LinearRuns

RunInputs ==
  LinearRuns \cup LotkaVolterraRuns \cup FaultyRuns \cup DriftRuns
    \cup StallRuns \cup OtherRuns

\* The calls an observer may keep to compare a later call with.
ProbeInputs ==
  {in \in RunInputs :
     /\ in[2].dt = Fin(6)
     /\ in[2].tMax \in {Fin(0), Fin(12)}
     /\ in[1].equations.limit \in {0, 13}
     /\ in[2].initialConditions \in {<<Fin(1)>>, <<Fin(3), Fin(1)>>}}

\* ------------------------------------------------------------------------
\* State
\* ------------------------------------------------------------------------

VARIABLES
  pc,               \* "idle", "stepping" (in solveODE's loop) or "done"
  system,           \* the arguments of the current call of solveODESafe
  config,
  validationError,  \* solveODE's locals
  points,
  t,
  state,
  maxSteps,
  stepCount,
  completion,       \* how solveODE completed: a trajectory or a throw
  result,           \* what solveODESafe returned
  fCalls,           \* invocations of system.equations in the current call
  rk4Calls,         \* invocations of rk4Step in the current call
  stepped,          \* the last invocation of rk4Step: its state and outcome
  heap,             \* the arrays of the current call, and who refers to which
  created,          \* trajectory points created in the current call
  memo,             \* one earlier call, its result, and what was called since
  vecOp,            \* the vector operation applied last, and its operands
  vecA,
  vecB,
  vecK,
  vecOut

solverVars ==
  <<pc, system, config, validationError, points, t, state, maxSteps,
    stepCount, completion, result, fCalls, rk4Calls, stepped, heap,
    created, memo>>

vecVars == <<vecOp, vecA, vecB, vecK, vecOut>>

vars == <<solverVars, vecVars>>

\* ------------------------------------------------------------------------
\* solveODE and solveODESafe (ode-solver.ts lines 191-268)
\* ------------------------------------------------------------------------

\* lines 248-251
Trajectory(pts, variables) == [points |-> pts, variables |-> variables]

\* String(error) of a thrown value that is no Error.
String(thrown) == thrown.message

\* solveODESafe returning, with a failure, a trajectory field as well.
solveODESafeWithPartial(c) ==
  IF c.ok THEN [success |-> TRUE, trajectory |-> c.val]
  ELSE [success |-> FALSE,
        error |-> IF c.thrown.isError THEN c.thrown.message
                  ELSE String(c.thrown),
        trajectory |-> Trajectory(points, system.stateVariables)]

\* solveODESafe without its catch clause: what solveODE throws leaves it.
solveODESafeUncaught(c) ==
  IF c.ok THEN [success |-> TRUE, trajectory |-> c.val]
  ELSE [propagated |-> c.thrown]

\* lines 263-266: the result made of solveODE's completion.
solveODESafe(c) ==
  IF c.ok THEN [success |-> TRUE, trajectory |-> c.val]
  ELSE [success |-> FALSE,
        error |-> IF c.thrown.isError THEN c.thrown.message
                  ELSE String(c.thrown)]

\* lines 234-240: the catch clause of the loop body.
catchInLoop(thrown, time) ==
  IF thrown.isError THEN thrown
  ELSE ErrorObject(Msg("Unexpected error during integration",
                       <<String(thrown).text>>, <<>>, toFixed2(time)))

\* lines 225-229
instabilityError(time) ==
  ErrorObject(Msg("Numerical instability detected", <<>>, <<>>,
                  toFixed2(time)))

\* Validation skipped once a call has passed it.
validateOnce(cfg, sys) ==
  IF pc = "done" /\ validationError = Null THEN Null
  ELSE validateSolverConfig(cfg, sys)

\* line 195: validateSolverConfig(config, system) on entry
validateOnEntry(cfg, sys) == validateSolverConfig(cfg, sys)

\* The first point stamped with the time of the first step.
initialTimeOneStep == Fin(6)

\* line 201
initialTime == Fin(0)

\* The elements of [...a]: the iterator of a yields undefined for an empty
\* slot.
spreadElements(a) ==
  [i \in 1..Len(a) |-> IF a[i] = Empty THEN Undefined ELSE a[i]]

\* line 202: [...initialConditions]
initialState(initialConditions) == spreadElements(initialConditions)

\* line 210 and line 233: { t, state: [...state] }
TrajectoryPoint(time, st) == [t |-> time, state |-> st]

\* The step budget without its spare step.
stepBudgetNoSpare(tMax, dt) == MathCeilDiv(tMax, dt)

\* line 213
stepBudget(tMax, dt) == MathCeilDiv(tMax, dt) + 1

\* A step counter that is not reset: it keeps the count of the last run.
staleStepCount == stepCount

\* line 214
initialStepCount == 0

\* A clock that advances by two steps at once.
advanceTimeTwice(time, dt) == Add(Add(time, dt), dt)

\* line 220: t += dt
advanceTime(time, dt) == Add(time, dt)

\* The loop condition without the step budget.
loopConditionTimeOnly(time, tMax, count, budget) == Lt(time, tMax)

\* line 216: the loop condition
loopCondition(time, tMax, count, budget) == Lt(time, tMax) /\ count < budget

\* Arrays are objects: heap.cells[ref] is the content of the array ref,
\* heap.initialConditions is the array the caller passed in the
\* configuration, heap.state the array solveODE's local state refers to, and
\* heap.points[i] the array the state field of the i-th point refers to.
Heap(cells, initialConditions, stateRef, pointRefs) ==
  [cells |-> cells, initialConditions |-> initialConditions,
   state |-> stateRef, points |-> pointRefs]

\* The caller's configuration before solveODE has created any array.
callerHeap(cfg) == Heap(<<cfg.initialConditions>>, 1, 0, <<>>)

\* A spread that hands back the array it was given.
sameArrayRef(cells, ref) == ref

\* [...a] (lines 202, 210, 233) creates an array with the elements of a;
\* spreadRef is the array the expression evaluates to.
spread(cells, ref) == Append(cells, spreadElements(cells[ref]))

spreadRef(cells, ref) == Len(cells) + 1

\* A step that writes its result into the array it was given.
stepInPlace(cells, ref, val) ==
  [cells |-> [cells EXCEPT ![ref] = val], ref |-> ref]

\* rk4Step returns the array made by the map of its last add (lines 21 and
\* 105); line 219 makes state refer to it.
stepResult(cells, ref, val) ==
  [cells |-> Append(cells, val), ref |-> Len(cells) + 1]

\* lines 202 and 210: state = [...initialConditions], then the first point
\* with state: [...state].
heapAtLoop(h) ==
  Heap(spread(spread(h.cells, h.initialConditions),
              spreadRef(h.cells, h.initialConditions)),
       h.initialConditions,
       spreadRef(h.cells, h.initialConditions),
       <<spreadRef(spread(h.cells, h.initialConditions),
                   spreadRef(h.cells, h.initialConditions))>>)

\* line 219: state = rk4Step(...).
heapStepped(h, val) ==
  Heap(stepResult(h.cells, h.state, val).cells, h.initialConditions,
       stepResult(h.cells, h.state, val).ref, h.points)

\* line 233: a point with state: [...state].
heapPushed(h) ==
  Heap(spread(h.cells, h.state), h.initialConditions, h.state,
       Append(h.points, spreadRef(h.cells, h.state)))

\* Before rk4Step was invoked in the current call.
notStepped ==
  [taken |-> FALSE, state |-> <<>>, stateRef |-> 0,
   out |-> Stepped(Throw(NoThrow), <<>>)]

\* solveODE completes, and solveODESafe returns.
Complete(c) ==
  /\ completion' = c
  /\ result' = solveODESafe(c)
  /\ pc' = "done"

\* solveODESafe(sys, cfg) is called: solveODE validates, and either throws
\* or initialises its locals and reaches the loop (lines 192-214).
Call(sys, cfg) ==
  /\ pc \in {"idle", "done"}
  /\ system' = sys
  /\ config' = cfg
  /\ validationError' = validateOnEntry(cfg, sys)
  /\ fCalls' = 0
  /\ rk4Calls' = 0
  /\ stepped' = notStepped
  /\ memo' = IF ~memo.set THEN memo
             ELSE IF memo.since # "other" /\ memo.system = sys /\ memo.config = cfg
               THEN [memo EXCEPT !.since = "same"]
             ELSE [memo EXCEPT !.since = "other"]
  /\ UNCHANGED vecVars
  /\ IF validationError' # Null
       THEN /\ Complete(Throw(ErrorObject(validationError')))
            /\ created' = 0
            /\ heap' = callerHeap(cfg)
            /\ UNCHANGED <<points, t, state, maxSteps, stepCount>>
     ELSE /\ t' = initialTime
          /\ state' = initialState(cfg.initialConditions)
          /\ IF hasInvalidValues(state')
               THEN /\ Complete(Throw(ErrorObject(
                         Msg("Initial conditions contain NaN or Infinity",
                             <<>>, <<>>, <<>>))))
                    /\ points' = <<>>
                    /\ created' = 0
                    /\ heap' = [heapAtLoop(callerHeap(cfg))
                                  EXCEPT !.points = <<>>]
                    /\ UNCHANGED <<maxSteps, stepCount>>
             ELSE /\ points' = <<TrajectoryPoint(t', state')>>
                  /\ created' = 1
                  /\ heap' = heapAtLoop(callerHeap(cfg))
                  /\ maxSteps' = stepBudget(cfg.tMax, cfg.dt)
                  /\ stepCount' = initialStepCount
                  /\ pc' = "stepping"
                  /\ UNCHANGED <<completion, result>>

\* One iteration of the loop (lines 216-241).
Step ==
  /\ pc = "stepping"
  /\ loopCondition(t, config.tMax, stepCount, maxSteps)
  /\ stepped' = [taken |-> TRUE, state |-> state, stateRef |-> heap.state,
                 out |-> rk4Step(system.equations, state, config.parameters,
                                 config.dt)]
  /\ fCalls' = fCalls + stepped'.out.calls
  /\ rk4Calls' = rk4Calls + 1
  /\ IF ~stepped'.out.ok
       THEN /\ Complete(Throw(catchInLoop(stepped'.out.thrown, t)))
            /\ UNCHANGED <<state, t, stepCount, points, created, heap>>
     ELSE /\ state' = stepped'.out.val
          /\ t' = advanceTime(t, config.dt)
          /\ stepCount' = stepCount + 1
          /\ IF hasInvalidValues(state')
               THEN /\ Complete(Throw(catchInLoop(instabilityError(t'), t')))
                    /\ heap' = heapStepped(heap, state')
                    /\ UNCHANGED <<points, created>>
             ELSE /\ points' = Append(points, TrajectoryPoint(t', state'))
                  /\ created' = created + 1
                  /\ heap' = heapPushed(heapStepped(heap, state'))
                  /\ UNCHANGED <<pc, completion, result>>
  /\ UNCHANGED <<system, config, validationError, maxSteps, memo, vecVars>>

\* The loop ends (lines 243-251).
Finish ==
  /\ pc = "stepping"
  /\ ~loopCondition(t, config.tMax, stepCount, maxSteps)
  /\ IF stepCount >= maxSteps
       THEN Complete(Throw(ErrorObject(
              Msg("Maximum number of integration steps exceeded",
                  <<>>, <<>>, <<>>))))
     ELSE Complete(Ok(Trajectory(points, system.stateVariables)))
  /\ UNCHANGED <<system, config, validationError, points, t, state, maxSteps,
                 stepCount, fCalls, rk4Calls, stepped, heap, created, memo,
                 vecVars>>

\* An observer keeps one finished call of ProbeInputs and its result; memo.since
\* then tells whether solveODESafe was called again: "same" when only with
\* the kept arguments, "other" once it was called with other arguments.
Remember ==
  /\ pc = "done"
  /\ ~memo.set
  /\ <<system, config>> \in ProbeInputs
  /\ memo' = [set |-> TRUE, since |-> "none", system |-> system,
              config |-> config, result |-> result]
  /\ UNCHANGED <<pc, system, config, validationError, points, t, state,
                 maxSteps, stepCount, completion, result, fCalls, rk4Calls,
                 stepped, heap, created, vecVars>>

defaultConfig ==
  SolverConfig(Fin(6), Fin(6), <<Fin(1)>>, [k |-> Fin(0), c |-> Fin(0)])

\* The observer before it has kept a call.
noMemo ==
  [set |-> FALSE, since |-> "none", system |-> linearSystem,
   config |-> defaultConfig, result |-> solveODESafe(Throw(NoThrow))]

InitSolver ==
  /\ pc = "idle"
  /\ system = linearSystem
  /\ config = defaultConfig
  /\ validationError = Null
  /\ points = <<>>
  /\ t = Fin(0)
  /\ state = <<>>
  /\ maxSteps = 0
  /\ stepCount = 0
  /\ completion = Throw(NoThrow)
  /\ result = solveODESafe(Throw(NoThrow))
  /\ fCalls = 0
  /\ rk4Calls = 0
  /\ stepped = notStepped
  /\ heap = callerHeap(config)
  /\ created = 0
  /\ memo = noMemo

InitVec ==
  /\ vecOp = "none"
  /\ vecA = <<>>
  /\ vecB = <<>>
  /\ vecK = Fin(0)
  /\ vecOut = Ok(<<>>)

Init == InitSolver /\ InitVec

\* The caller runs any configuration of RunInputs, one call after another.
Next ==
  \/ \E in \in RunInputs : Call(in[1], in[2])
  \/ Step
  \/ Finish
  \/ Remember

Spec == Init /\ [][Next]_vars

\* Control reaches the body of the loop (line 216 holds, line 219 is run):
\* the part of Step that decides whether it can be taken and counts it.
LoopIterates ==
  /\ pc = "stepping"
  /\ loopCondition(t, config.tMax, stepCount, maxSteps)
  /\ rk4Calls' = rk4Calls + 1

\* Control leaves the loop (line 216 fails, lines 243-251 are run): the part
\* of Finish that decides whether it can be taken.
LoopExits ==
  /\ pc = "stepping"
  /\ ~loopCondition(t, config.tMax, stepCount, maxSteps)
  /\ pc' = "done"

\* solveODE is synchronous code that runs on: an iteration of the loop that
\* can be taken is taken, and so is the exit of the loop.  Within Next the
\* steps that satisfy LoopIterates are those of Step and the steps that
\* satisfy LoopExits are those of Finish, and Step and Finish are enabled
\* exactly when these are, so the conditions are weak fairness of Step and
\* of Finish.
SpecFair == Spec /\ WF_rk4Calls(LoopIterates) /\ WF_pc(LoopExits)

\* The vector operations applied to every pair of operands of length
\* 0 .. MaxLen.
Vectors ==
  UNION {[1..n -> {Fin(0), Fin(3), Fin(-4), NaN}] : n \in 0..MaxLen}

InitVector ==
  /\ InitSolver
  /\ vecOp = "none"
  /\ vecA \in Vectors
  /\ vecB \in Vectors
  /\ vecK \in {Fin(2), PosInfinity}
  /\ vecOut = Ok(<<>>)

ApplyAdd ==
  /\ vecOp' = "add"
  /\ vecOut' = add(vecA, vecB)
  /\ UNCHANGED <<solverVars, vecA, vecB, vecK>>

ApplySubtract ==
  /\ vecOp' = "subtract"
  /\ vecOut' = subtract(vecA, vecB)
  /\ UNCHANGED <<solverVars, vecA, vecB, vecK>>

ApplyDot ==
  /\ vecOp' = "dot"
  /\ vecOut' = dot(vecA, vecB)
  /\ UNCHANGED <<solverVars, vecA, vecB, vecK>>

ApplyScale ==
  /\ vecOp' = "scale"
  /\ vecOut' = Ok(scale(vecA, vecK))
  /\ UNCHANGED <<solverVars, vecA, vecB, vecK>>

ApplyMagnitude ==
  /\ vecOp' = "magnitude"
  /\ vecOut' = Ok(magnitude(vecA))
  /\ UNCHANGED <<solverVars, vecA, vecB, vecK>>

NextVector ==
  \/ ApplyAdd
  \/ ApplySubtract
  \/ ApplyDot
  \/ ApplyScale
  \/ ApplyMagnitude

SpecVector == InitVector /\ [][NextVector]_vars

\* One call of solveODESafe on each configuration of ValidationInputs.
InitValidation ==
  /\ InitVec
  /\ \E in \in ValidationInputs :
       /\ system = in[1]
       /\ config = in[2]
  /\ pc = "idle"
  /\ validationError = Null
  /\ points = <<>>
  /\ t = Fin(0)
  /\ state = <<>>
  /\ maxSteps = 0
  /\ stepCount = 0
  /\ completion = Throw(NoThrow)
  /\ result = solveODESafe(Throw(NoThrow))
  /\ fCalls = 0
  /\ rk4Calls = 0
  /\ stepped = notStepped
  /\ heap = callerHeap(config)
  /\ created = 0
  /\ memo = noMemo

CallOnce == pc = "idle" /\ Call(system, config)

NextValidation ==
  \/ CallOnce
  \/ Step
  \/ Finish

SpecValidation == InitValidation /\ [][NextValidation]_vars

\* ------------------------------------------------------------------------
\* The validation rules as the specification states them (spec 4.2)
\* ------------------------------------------------------------------------

RuleHolds(n, cfg, sys) ==
  CASE n = 1 -> isFinite(cfg.dt) /\ Gt(cfg.dt, Fin(0))
    [] n = 2 -> isFinite(cfg.tMax) /\ Gt(cfg.tMax, Fin(0))
    [] n = 3 -> Le(cfg.dt, cfg.tMax)
    [] n = 4 -> Len(cfg.initialConditions) = Len(sys.stateVariables)
    [] n = 5 -> \A i \in 1..Len(cfg.initialConditions) :
                  isFinite(cfg.initialConditions[i])
    [] n = 6 -> \A i \in 1..Len(sys.parameters) :
                  sys.parameters[i].name \in DOMAIN cfg.parameters
    [] n = 7 -> \A i \in 1..Len(sys.parameters) :
                  sys.parameters[i].name \in DOMAIN cfg.parameters =>
                    LET value == cfg.parameters[sys.parameters[i].name]
                    IN /\ isFinite(value)
                       /\ Le(sys.parameters[i].min, value)
                       /\ Le(value, sys.parameters[i].max)

AllRulesHold(cfg, sys) == \A n \in 1..7 : RuleHolds(n, cfg, sys)

\* The violated rule that comes first; 0 when no rule is violated.
FirstViolatedRule(cfg, sys) ==
  IF AllRulesHold(cfg, sys) THEN 0
  ELSE CHOOSE n \in 1..7 :
         /\ ~RuleHolds(n, cfg, sys)
         /\ \A m \in 1..(n - 1) : RuleHolds(m, cfg, sys)

\* The rule a message of the validator reports.
RuleOf(message) ==
  CASE message.text = "Time step dt must be a finite number" -> 1
    [] message.text = "Time step dt must be positive" -> 1
    [] message.text = "Maximum time tMax must be a finite number" -> 2
    [] message.text = "Maximum time tMax must be positive" -> 2
    [] message.text = "Time step dt cannot be larger than maximum time tMax"
         -> 3
    [] message.text
         = "Initial conditions length must match number of state variables"
         -> 4
    [] message.text = "All initial conditions must be finite numbers" -> 5
    [] message.text = "Missing required parameters" -> 6
    [] message.text = "Parameter must be a finite number" -> 7
    [] message.text = "Parameter is outside valid range" -> 7
    [] OTHER -> 0

\* The returned value is one of the two shapes of SolverResult.
IsSolverResult(r) ==
  \/ DOMAIN r = {"success", "trajectory"} /\ r.success
  \/ DOMAIN r = {"success", "error"} /\ ~r.success

\* The least n with n * b >= a, for a > 0 and b > 0.
CeilQuotient(a, b) ==
  CHOOSE n \in 0..a : n * b >= a /\ (n - 1) * b < a

\* Time is accumulated exactly: every multiple of dt up to the end of the
\* run is a representable number.
ExactTime(cfg) ==
  \A j \in 1..CeilQuotient(cfg.tMax.v, cfg.dt.v) :
    Round(j * cfg.dt.v) = j * cfg.dt.v

\* ------------------------------------------------------------------------
\* C1
\* ------------------------------------------------------------------------

\* C1: whenever the validator rejects a configuration, the rule its message
\* reports is the first violated rule in the order 1..7 of the
\* specification (in particular rule 2, not rule 3, when tMax <= 0 or tMax
\* is not finite).  The validator checks dt > tMax before it checks tMax,
\* so this fails for a finite dt > 0 with tMax <= 0 or tMax = -Infinity.
C1_ReportsFirstViolatedRule ==
  (pc = "done" /\ validationError # Null)
    => RuleOf(validationError) = FirstViolatedRule(config, system)

\* ------------------------------------------------------------------------
\* C2
\* ------------------------------------------------------------------------

\* The configurations the specification lists as rejected.
ListedAsRejected(cfg, sys) ==
  \/ cfg.dt = Fin(0)
  \/ Lt(cfg.dt, Fin(0))
  \/ Gt(cfg.dt, cfg.tMax)
  \/ Le(cfg.tMax, Fin(0))
  \/ Len(cfg.initialConditions) # Len(sys.stateVariables)
  \/ \E i \in 1..Len(sys.parameters) :
       sys.parameters[i].name \notin DOMAIN cfg.parameters
  \/ \E i \in 1..Len(sys.parameters) :
       /\ sys.parameters[i].name \in DOMAIN cfg.parameters
       /\ \/ Lt(cfg.parameters[sys.parameters[i].name], sys.parameters[i].min)
          \/ Gt(cfg.parameters[sys.parameters[i].name], sys.parameters[i].max)

\* C2 as stated: once solveODE has validated, the validator returned null
\* exactly when all seven rules hold; an accepted configuration reaches the
\* loop with its first point, and a rejected one (every listed kind of it)
\* ends in a failure that carries no trajectory.  It fails for initial
\* conditions that are a sparse array of the right length: rule 5 does not
\* hold of them, and the validator returns null.
C2_AcceptsIffAllRulesHold ==
  pc # "idle" =>
    /\ (validationError = Null) <=> AllRulesHold(config, system)
    /\ ListedAsRejected(config, system) => validationError # Null
    /\ validationError = Null => created >= 1
    /\ validationError # Null =>
         /\ pc = "done"
         /\ created = 0
         /\ result = [success |-> FALSE, error |-> validationError]

\* ------------------------------------------------------------------------
\* C3
\* ------------------------------------------------------------------------

\* C3 as stated: a returned trajectory starts with the point
\* (0, initialConditions), has one point more than steps were taken, and
\* the times of consecutive points are strictly increasing and differ by
\* exactly dt.  The last part fails where the sum t + dt is rounded.
C3_SpacedExactlyByDt ==
  (pc = "done" /\ result.success) =>
    LET pts == result.trajectory.points
    IN /\ Len(pts) >= 1
       /\ pts[1] = [t |-> Fin(0), state |-> config.initialConditions]
       /\ Len(pts) = stepCount + 1
       /\ \A i \in 1..(Len(pts) - 1) :
            /\ Lt(pts[i].t, pts[i + 1].t)
            /\ pts[i + 1].t.v - pts[i].t.v = config.dt.v

\* C3, amended: a returned trajectory starts with the point
\* (0, initialConditions), has one point more than steps were taken, and
\* the times of consecutive points are strictly increasing, each the
\* rounded sum of the time before it and dt; they differ by exactly dt
\* when time is accumulated exactly.
C3_SpacedByRoundedDt ==
  (pc = "done" /\ result.success) =>
    LET pts == result.trajectory.points
    IN /\ Len(pts) >= 1
       /\ pts[1] = [t |-> Fin(0), state |-> config.initialConditions]
       /\ Len(pts) = stepCount + 1
       /\ \A i \in 1..(Len(pts) - 1) :
            /\ Lt(pts[i].t, pts[i + 1].t)
            /\ pts[i + 1].t.v = Round(pts[i].t.v + config.dt.v)
            /\ ExactTime(config) =>
                 pts[i + 1].t.v - pts[i].t.v = config.dt.v

\* A trajectory is returned whose last time is a rounded sum: 40 + 10 is
\* stored as 48.
C3_Witness ==
  /\ pc = "done"
  /\ result.success
  /\ config.dt = Fin(10)
  /\ Len(result.trajectory.points) = 6
  /\ result.trajectory.points[5].t = Fin(40)
  /\ result.trajectory.points[6].t = Fin(48)

\* ------------------------------------------------------------------------
\* C4
\* ------------------------------------------------------------------------

\* The failures of a run whose dynamics are not finite: a step result that
\* is not finite, or a derivative function that throws or returns a vector
\* of the wrong length.
DynamicsFailures ==
  {"Numerical instability detected", "Vector length mismatch",
   "derivative failed", "Unexpected error during integration"}

\* C4: with time accumulated exactly, a run of a valid configuration either
\* ends in one of the failures of non-finite dynamics or returns a
\* trajectory of exactly ceil(tMax/dt) steps, that is ceil(tMax/dt) + 1
\* points; it neither stops early nor takes an extra step.
C4_ExactStepCount ==
  (pc = "done" /\ AllRulesHold(config, system) /\ ExactTime(config)) =>
    IF result.success
      THEN /\ stepCount = CeilQuotient(config.tMax.v, config.dt.v)
           /\ Len(result.trajectory.points)
                = CeilQuotient(config.tMax.v, config.dt.v) + 1
    ELSE result.error.text \in DynamicsFailures

\* A run whose dt does not divide tMax: dt = 12, tMax = 18, two steps.
C4_Witness ==
  /\ pc = "done"
  /\ result.success
  /\ config.dt = Fin(12)
  /\ config.tMax = Fin(18)
  /\ ExactTime(config)
  /\ Len(result.trajectory.points) = 3

\* ------------------------------------------------------------------------
\* C5
\* ------------------------------------------------------------------------

\* The time a message carries, in hundredths; -1 when it carries none.
ReportedTime(message) ==
  IF message.at = <<>> THEN -1 ELSE 100 * message.at[1] + message.at[2]

\* C5: the time reported with a numerical instability is finite and
\* strictly less than tMax.  solveODE advances t before it checks the step
\* result, so a breakdown in the last step reports a time >= tMax.
C5_InstabilityTimeBelowTMax ==
  (pc = "done" /\ ~result.success
     /\ result.error.text = "Numerical instability detected") =>
    /\ result.error.at # <<>>
    /\ ReportedTime(result.error) < 100 * config.tMax.v

\* ------------------------------------------------------------------------
\* C6
\* ------------------------------------------------------------------------

\* C6: a call returns either success with the trajectory of the whole run
\* (every point created, the last one at or past tMax) or a failure that
\* holds a reason and no trajectory, whatever points the run had created.
C6_AllOrNothing ==
  pc = "done" =>
    IF result.success
      THEN /\ DOMAIN result = {"success", "trajectory"}
           /\ result.trajectory.points = points
           /\ Len(points) = created
           /\ Ge(points[Len(points)].t, config.tMax)
    ELSE /\ DOMAIN result = {"success", "error"}
         /\ result.error # Null

\* A run fails on its step budget after it has created eight points.
C6_Witness ==
  /\ pc = "done"
  /\ ~result.success
  /\ result.error.text = "Maximum number of integration steps exceeded"
  /\ created = 8
  /\ Len(points) = 8

\* ------------------------------------------------------------------------
\* C7
\* ------------------------------------------------------------------------

\* C7: every finished call returned a SolverResult: success with the
\* trajectory exactly when solveODE returned one, and otherwise failure
\* with the message of what solveODE threw.
C7_NeverPropagates ==
  pc = "done" =>
    /\ IsSolverResult(result)
    /\ result.success <=> completion.ok
    /\ completion.ok => result.trajectory = completion.val
    /\ ~completion.ok =>
         result.error = IF completion.thrown.isError
                          THEN completion.thrown.message
                        ELSE String(completion.thrown)

\* The derivative function threw a value that is no Error, in the second
\* step.
C7_Witness ==
  /\ pc = "done"
  /\ system.equations.kind = "throwsValue"
  /\ stepCount = 1
  /\ fCalls > 4
  /\ ~result.success
  /\ result.error.text = "Unexpected error during integration"

\* ------------------------------------------------------------------------
\* C8
\* ------------------------------------------------------------------------

\* C8: a call with the arguments of an earlier call returns the result the
\* earlier call returned, whatever was called in between.
C8_Deterministic ==
  (pc = "done" /\ memo.set /\ memo.since # "none"
     /\ memo.system = system /\ memo.config = config)
    => result = memo.result

\* A call is repeated after calls with other arguments, and succeeds.
C8_Witness ==
  /\ pc = "done"
  /\ memo.set
  /\ memo.since = "other"
  /\ memo.system = system
  /\ memo.config = config
  /\ result.success
  /\ stepCount = 2

\* ------------------------------------------------------------------------
\* C9
\* ------------------------------------------------------------------------

\* C9: add, subtract and dot throw the length-mismatch error, which carries
\* both lengths, exactly when the lengths of their operands differ; scale
\* and magnitude never throw, the empty vector included.
C9_VectorOperations ==
  /\ vecOp \in {"add", "subtract", "dot"} =>
       /\ vecOut.ok <=> Len(vecA) = Len(vecB)
       /\ ~vecOut.ok =>
            /\ vecOut.thrown.isError
            /\ vecOut.thrown.message.text = "Vector length mismatch"
            /\ vecOut.thrown.message.nums = <<Fin(Len(vecA)), Fin(Len(vecB))>>
  /\ vecOp = "add" /\ vecOut.ok => Len(vecOut.val) = Len(vecA)
  /\ vecOp = "subtract" /\ vecOut.ok => Len(vecOut.val) = Len(vecA)
  /\ vecOp = "scale" => vecOut.ok /\ Len(vecOut.val) = Len(vecA)
  /\ vecOp = "magnitude" => vecOut.ok

\* add is applied to a shorter and a longer vector, and throws.
C9_Witness ==
  /\ vecOp = "add"
  /\ Len(vecA) = 1
  /\ Len(vecB) = 2
  /\ ~vecOut.ok

\* ------------------------------------------------------------------------
\* C10
\* ------------------------------------------------------------------------

\* C10: every call validates its own configuration, whatever the calls
\* before it did; a call whose validation fails ends at once in that failure,
\* and a call with an invalid configuration never reaches the loop: the
\* derivative function is not invoked and no point is created.
C10_ValidatesOnEntry ==
  /\ pc # "idle" =>
       /\ validationError = validateSolverConfig(config, system)
       /\ validationError # Null =>
            /\ pc = "done"
            /\ fCalls = 0
            /\ created = 0
            /\ result = [success |-> FALSE, error |-> validationError]
  /\ ~AllRulesHold(config, system) =>
       /\ pc \in {"idle", "done"}
       /\ pc = "done" => fCalls = 0 /\ created = 0 /\ ~result.success

\* An invalid configuration is rejected after a call that passed validation
\* and took steps, and that the observer kept.
C10_Witness ==
  /\ pc = "done"
  /\ ~AllRulesHold(config, system)
  /\ stepCount >= 2
  /\ memo.set
  /\ memo.result.success

\* ------------------------------------------------------------------------
\* C11
\* ------------------------------------------------------------------------

\* C11: a run that fails with numerical instability reports the time as it
\* was before the failed step, the time of the last point it created, and
\* has advanced t and counted a step only for the steps whose result was
\* finite.  solveODE executes t += dt and stepCount++ before it checks the
\* step result, so the failed step is counted and its end time is reported.
C11_InstabilityReportsTimeBeforeStep ==
  (pc = "done" /\ ~result.success
     /\ result.error.text = "Numerical instability detected") =>
    /\ result.error.at = toFixed2(points[Len(points)].t)
    /\ t = points[Len(points)].t
    /\ stepCount = Len(points) - 1

\* ------------------------------------------------------------------------
\* C12
\* ------------------------------------------------------------------------

\* C12: of the runs whose loop has ended (in a trajectory or in the
\* step-budget error), exactly those fail whose loop ended with
\* stepCount = maxSteps while t < tMax; a run whose loop ended with
\* t >= tMax returns its trajectory even with stepCount = maxSteps.
\* solveODE throws on stepCount >= maxSteps without looking at t, so a run
\* whose rounded time reaches tMax only in the spare step fails.
C12_BudgetErrorOnlyBelowTMax ==
  (pc = "done" /\ validationError = Null /\ created >= 1
     /\ (result.success
           \/ result.error.text
                = "Maximum number of integration steps exceeded")) =>
    /\ ~result.success <=> (stepCount = maxSteps /\ Lt(t, config.tMax))
    /\ Ge(t, config.tMax) => result.success

\* ------------------------------------------------------------------------
\* C13
\* ------------------------------------------------------------------------

\* C13: a run that has passed validation invokes rk4Step at most
\* maxSteps = ceil(tMax/dt) + 1 times, holds at most maxSteps + 1 points,
\* returned or not, and ends in the completed or the failed outcome, also
\* when its time stops advancing below tMax.
C13_TerminatesWithinBudget ==
  /\ []((pc # "idle" /\ validationError = Null /\ created >= 1) =>
          /\ maxSteps = CeilQuotient(config.tMax.v, config.dt.v) + 1
          /\ rk4Calls <= maxSteps
          /\ stepCount <= maxSteps
          /\ Len(points) <= maxSteps + 1
          /\ (pc = "done" /\ result.success) =>
               Len(result.trajectory.points) <= maxSteps + 1)
  /\ (pc = "stepping" ~> pc = "done")

\* The run whose time stalls at 16 < tMax = 18 has ended after maxSteps
\* invocations of rk4Step.
C13_Witness ==
  /\ pc = "done"
  /\ config.dt = Fin(1)
  /\ Lt(t, config.tMax)
  /\ rk4Calls = maxSteps
  /\ ~result.success
  /\ result.error.text = "Maximum number of integration steps exceeded"

\* ------------------------------------------------------------------------
\* C14
\* ------------------------------------------------------------------------

\* A derivative that was returned, as a vector of the length of the state.
IsDerivative(c, n) == c.ok /\ Len(c.val) = n

\* s + h * k, element by element.
Stage(s, h, k) == [i \in 1..Len(s) |-> Add(s[i], Mul(h, k[i]))]

\* s + (dt/6) * ((k1 + 2*k2) + (2*k3 + k4)), element by element.
WeightedStep(s, dt, k1, k2, k3, k4) ==
  [i \in 1..Len(s) |->
     Add(s[i],
         Mul(Div(dt, 6),
             Add(Add(k1[i], Mul(Fin(2), k2[i])),
                 Add(Mul(Fin(2), k3[i]), k4[i]))))]

\* C14: rk4Step invokes the derivative function on state, state + (dt/2)*k1,
\* state + (dt/2)*k2 and state + dt*k3, in this order and four times when
\* every derivative is a vector of the right length (it stops at the first
\* that is not, and throws); it then returns
\* state + (dt/6)*(k1 + 2*k2 + 2*k3 + k4) in a new array, finite or not, and
\* returns a vector equal to state when the derivative at state is zero.
C14_RK4Step ==
  stepped.taken =>
    LET f == system.equations
        ps == config.parameters
        dt == config.dt
        s == stepped.state
        out == stepped.out
        k1 == Apply(f, s, ps)
        x2 == Stage(s, Div(dt, 2), k1.val)
        k2 == Apply(f, x2, ps)
        x3 == Stage(s, Div(dt, 2), k2.val)
        k3 == Apply(f, x3, ps)
        x4 == Stage(s, dt, k3.val)
        k4 == Apply(f, x4, ps)
    IN IF ~IsDerivative(k1, Len(s)) THEN ~out.ok /\ out.args = <<s>>
       ELSE IF ~IsDerivative(k2, Len(s)) THEN ~out.ok /\ out.args = <<s, x2>>
       ELSE IF ~IsDerivative(k3, Len(s))
         THEN ~out.ok /\ out.args = <<s, x2, x3>>
       ELSE /\ out.args = <<s, x2, x3, x4>>
            /\ out.calls = 4
            /\ IF ~IsDerivative(k4, Len(s)) THEN ~out.ok
               ELSE /\ out.ok
                    /\ out.val
                         = WeightedStep(s, dt, k1.val, k2.val, k3.val, k4.val)
                    /\ (\A i \in 1..Len(s) : k1.val[i] = Fin(0)) =>
                         out.val = s
                    /\ heap.state # stepped.stateRef
                    /\ heap.state > stepped.stateRef
                    /\ heap.cells[stepped.stateRef] = s

\* rk4Step has invoked the derivative function four times and returned a
\* vector with an element that is not finite.
C14_Witness ==
  /\ stepped.taken
  /\ stepped.out.ok
  /\ stepped.out.calls = 4
  /\ hasInvalidValues(stepped.out.val)

\* ------------------------------------------------------------------------
\* C15
\* ------------------------------------------------------------------------

\* The declared names from the i-th on that have no entry in the parameter
\* values, in declaration order.
RECURSIVE AbsentFrom(_, _, _)
AbsentFrom(cfg, sys, i) ==
  IF i > Len(sys.parameters) THEN <<>>
  ELSE IF sys.parameters[i].name \in DOMAIN cfg.parameters
    THEN AbsentFrom(cfg, sys, i + 1)
  ELSE <<sys.parameters[i].name>> \o AbsentFrom(cfg, sys, i + 1)

C16_InputsUnchanged ==
  [][/\ pc = "stepping" =>
          /\ system' = system
          /\ config' = config
          /\ heap'.initialConditions = heap.initialConditions
          /\ Len(heap'.cells) >= Len(heap.cells)
          /\ \A ref \in 1..Len(heap.cells) :
               heap'.cells[ref] = heap.cells[ref]
     /\ pc' # "idle" =>
          heap'.cells[heap'.initialConditions] = config'.initialConditions
    ]_vars

\* A call has returned a trajectory whose state moved away from the initial
\* conditions, which the caller's array still holds.
C16_Witness ==
  /\ pc = "done"
  /\ result.success
  /\ rk4Calls >= 2
  /\ state # config.initialConditions
  /\ heap.cells[heap.initialConditions] = config.initialConditions
  /\ heap.state # heap.initialConditions

\* ------------------------------------------------------------------------
\* C17
\* ------------------------------------------------------------------------

\* C17: a returned trajectory names the state variables of the system; each
\* of its points holds a state of that length with finite elements, in an
\* array of its own (not the array of another point, of the caller's
\* initialConditions or of solveODE's local state); and a step in which the
\* derivative function returned a vector of another length, at whichever
\* stage, ends the run in failure without a point.
C17_WellFormedTrajectory ==
  /\ (pc = "done" /\ result.success) =>
       LET pts == result.trajectory.points
       IN /\ result.trajectory.variables = system.stateVariables
          /\ Len(pts) >= 1
          /\ Len(heap.points) = Len(pts)
          /\ \A i \in 1..Len(pts) :
               /\ Len(pts[i].state) = Len(system.stateVariables)
               /\ \A j \in 1..Len(pts[i].state) : isFinite(pts[i].state[j])
               /\ heap.cells[heap.points[i]] = pts[i].state
               /\ heap.points[i] # heap.initialConditions
               /\ heap.points[i] # heap.state
               /\ \A j \in 1..Len(pts) : i # j => heap.points[i] # heap.points[j]
  /\ (/\ stepped.taken
      /\ \E i \in 1..Len(stepped.out.args) :
           LET k == Apply(system.equations, stepped.out.args[i],
                          config.parameters)
           IN k.ok /\ Len(k.val) # Len(system.stateVariables)) =>
       /\ pc = "done"
       /\ ~result.success
       /\ Len(points) = rk4Calls

\* A trajectory was returned in which two points hold equal states in
\* different arrays.
C17_Witness ==
  /\ pc = "done"
  /\ result.success
  /\ Len(result.trajectory.points) >= 3
  /\ result.trajectory.points[2].state = result.trajectory.points[3].state
  /\ heap.points[2] # heap.points[3]

\* ------------------------------------------------------------------------
\* C18
\* ------------------------------------------------------------------------

\* C18 as stated: no call fails with solveODE's own check of the initial
\* state, because a configuration whose initial conditions hold something
\* that is not a finite number at an index below their length is rejected
\* by validation, with rule 5 or an earlier rule.  It fails for a sparse
\* array of the right length.
C18_InitialCheckUnreachable ==
  /\ (pc = "done" /\ ~result.success) =>
       result.error.text # "Initial conditions contain NaN or Infinity"
  /\ (pc # "idle" /\ ~RuleHolds(5, config, system)) =>
       /\ validationError # Null
       /\ RuleOf(validationError) \in 1..5
       /\ result = [success |-> FALSE, error |-> validationError]

\* ------------------------------------------------------------------------
\* C19
\* ------------------------------------------------------------------------

\* C19: in a returned trajectory whose time was accumulated exactly, every
\* point but the last has t < tMax and the last has tMax <= t < tMax + dt:
\* t = tMax when dt divides tMax, and t > tMax otherwise.
C19_LastSampleWithinOneStep ==
  (pc = "done" /\ result.success /\ ExactTime(config)) =>
    LET pts == result.trajectory.points
        last == pts[Len(pts)].t
    IN /\ \A i \in 1..(Len(pts) - 1) : Lt(pts[i].t, config.tMax)
       /\ isFinite(last)
       /\ Ge(last, config.tMax)
       /\ last.v < config.tMax.v + config.dt.v
       /\ config.tMax.v % config.dt.v = 0 => last = config.tMax
       /\ config.tMax.v % config.dt.v # 0 => Gt(last, config.tMax)

\* A trajectory was returned for dt = 12 and tMax = 18: its last sample is
\* at 24.
C19_Witness ==
  /\ pc = "done"
  /\ result.success
  /\ ExactTime(config)
  /\ config.tMax.v % config.dt.v # 0
  /\ Len(result.trajectory.points) >= 3
  /\ Gt(result.trajectory.points[Len(result.trajectory.points)].t, config.tMax)

====
